---- MODULE Spec2Model ----
(***************************************************************************)
(* A model of server.js: the in-memory session registry `sessions`, the    *)
(* backend clients createClient builds, their lifecycle events, the idle   *)
(* timer of every client, and the HTTP handlers start-session, check-login *)
(* send-message, send-pdf-url, send-pdf-base64 and send-image-base64.      *)
(* Every JavaScript callback runs to completion on the single event loop,  *)
(* so every callback is one action.  Time is counted in seconds.           *)
(* Spec has the start-session, check-login and send-message requests;      *)
(* MediaSpec has the check-login and the three media requests.             *)
(***************************************************************************)
EXTENDS Integers, Sequences, FiniteSets, TLC

\* ------------------------------------------------------------ universe

Users == {"u1"}
NoUser == ""                 \* a request body without userId
QRs == {"qrA"}
NoQR == "null"               \* lastQR: null
NoClient == 0                \* no registry entry / timeout: null

MaxClients == 2              \* clients createClient may build in one run
Clients == 1..MaxClients

\* An idle timer further than Near seconds from its deadline is not counted
\* second by second: Far stands for "more than Near seconds remain".  A new
\* timer is "fresh"; it is "pending" once a period with no request in flight
\* has passed since it was armed (IdlePeriod, of any length), and only then
\* can it come within Near seconds of its deadline.  A request lasts 15 s at
\* most and can arrive at any moment of the 120 s, so every order in which
\* the code can run an idle timer and the 15 s, 2 s and 1 s timers of the
\* requests is a behaviour of the model.
Near == 1
Far == Near + 1

IdleWindow == 120            \* 2 * 60 * 1000 ms
MaxWait == 15                \* 15000 ms
PollInterval == 1            \* 1000 ms
Grace == 2                   \* 2000 ms
MinDigits == 10              \* cleanNumber.length < 10

SendIds == {"m1"}            \* send-* requests
StartIds == {"s1"}           \* start-session requests
MaxInFlight == 1             \* requests awaiting their answer at once

\* request bodies' number field: absent, 9 digits in 10 characters, 10
\* digits in 12 characters
Digits == {"0", "1", "2", "3", "4", "5", "6", "7", "8", "9"}
NumAbsent == << >>
NumShort == <<"5", "5", "5", "-", "1", "2", "3", "4", "5", "6">>
NumValid == <<"5", "5", "5", "-", "1", "2", "3", "-", "4", "5", "6", "7">>
Numbers == {NumAbsent, NumShort, NumValid}

\* the send-* handlers, the message field of their bodies, and the options
\* of a sendMessage call without a caption
Kinds == {"send-message", "send-pdf-url", "send-pdf-base64", "send-image-base64"}
Messages == {"hello"}
NoCaption == "undefined"

VARIABLES
    sessions,     \* sessions[userId]: the registry entry, NoSession if absent
    clients,      \* every Client object built so far, with its idle timer
    authFiles,    \* authFiles[userId]: .wwebjs_auth/<userId> exists
    start,        \* start-session requests
    send,         \* send-message requests
    crashed,      \* an uncaught TypeError ended the process
    last          \* the callback that ran last (history)

vars == <<sessions, clients, authFiles, start, send, crashed, last>>

\* ------------------------------------------------------------ values

NoSession ==
    [client |-> NoClient, ready |-> FALSE, lastQR |-> NoQR,
     initializing |-> FALSE, timeout |-> NoClient]

Registered(ss, u) == ss[u].client # NoClient

\* destroyed: the calls of client.destroy(); timer, rem: the idle timer armed
\* with the client; wasReady: the entry holding the client has been ready
NoClientRec ==
    [owner |-> NoUser, destroyed |-> 0, timer |-> "none", rem |-> 0, wasReady |-> FALSE]

Built(cl, c) == cl[c].owner # NoUser
Live(cl, c) == Built(cl, c) /\ cl[c].destroyed = 0
CanBuild(cl) == \E c \in Clients : ~Built(cl, c)
NewId(cl) == CHOOSE c \in Clients : ~Built(cl, c) /\ \A d \in Clients : d < c => Built(cl, d)

IdleStart == [pc |-> "idle", user |-> NoUser, rem |-> 0]

\* kind: the handler; client: the handle ensureClientReady returned; sent:
\* the sendMessage calls made; delivered: the calls that resolved;
\* startClient, becameReady, vanished: history of the readiness wait;
\* waitRem, pollRem: the time left on its two timers (kept as they stood
\* when the wait returned).
\* A request that has been answered leaves its slot; the answer is in `last`.
IdleSend ==
    [pc |-> "idle", kind |-> "send-message", user |-> NoUser, number |-> << >>,
     message |-> "", waitRem |-> 0, pollRem |-> 0,
     client |-> NoClient, sent |-> << >>, delivered |-> 0,
     startClient |-> NoClient, becameReady |-> FALSE, vanished |-> FALSE]

\* requests that have not been answered
InFlight(st, snd) ==
    Cardinality({s \in StartIds : st[s].pc # "idle"})
        + Cardinality({m \in SendIds : snd[m].pc # "idle"})

\* act: the callback; client: the client it built, destroyed or returned
\* (listeners leave it out); status: what it answered or found
Step(act, u, c, st) == [act |-> act, user |-> u, client |-> c, status |-> st]

\* setTimeout(..., 2 * 60 * 1000): the remaining time of a new idle timer
IdleArm == IF IdleWindow > Near THEN Far ELSE IdleWindow

\* ------------------------------------------------------------ createClient

\* new Client, sessions[userId] = {...}, the idle timer armed, the handlers
\* registered, client.initialize()
createClient(ss, cl, userId) ==
    LET c == NewId(cl) IN
    [sessions |-> [ss EXCEPT ![userId] =
                      [client |-> c, ready |-> FALSE, lastQR |-> NoQR,
                       initializing |-> TRUE, timeout |-> c]],
     clients |-> [cl EXCEPT ![c] =
                      [owner |-> userId, destroyed |-> 0,
                       timer |-> IF IdleWindow > Near THEN "fresh" ELSE "pending",
                       rem |-> IdleArm, wasReady |-> FALSE]]]

\* the check of the registry left out
ensureSessionUnchecked(ss, cl, userId) == createClient(ss, cl, userId)

\* if (!sessions[userId]) createClient(userId)
ensureSession(ss, cl, userId) ==
    IF Registered(ss, userId) THEN [sessions |-> ss, clients |-> cl]
    ELSE createClient(ss, cl, userId)

\* client.destroy()
destroy(cl, c) == [cl EXCEPT ![c].destroyed = @ + 1]

\* the auth directory taken to exist
sessionExistsAlways(af, userId) == TRUE

\* fs.existsSync(.wwebjs_auth/<userId>)
sessionExists(af, userId) == af[userId]

\* the auth directory left in place
purgeAuthSkipped(af, userId) == af

\* if (fs.existsSync(authPath)) fs.rmSync(authPath, ...)
purgeAuth(af, userId) == IF af[userId] THEN [af EXCEPT ![userId] = FALSE] ELSE af

\* ------------------------------------------------------------ history

\* a readiness wait of userId is outstanding and its 15 s have not elapsed
Waiting(r, userId) == r.pc = "waiting" /\ r.user = userId

NoteReady(snd, userId) ==
    [m \in SendIds |->
        IF Waiting(snd[m], userId) /\ snd[m].waitRem > 0
        THEN [snd[m] EXCEPT !.becameReady = TRUE] ELSE snd[m]]

NoteRemoved(snd, userId) ==
    [m \in SendIds |->
        IF Waiting(snd[m], userId) THEN [snd[m] EXCEPT !.vanished = TRUE] ELSE snd[m]]

\* ------------------------------------------------------------ Init

Init ==
    /\ sessions = [u \in Users |-> NoSession]
    /\ clients = [c \in Clients |-> NoClientRec]
    /\ authFiles \in [Users -> BOOLEAN]
    /\ start = [s \in StartIds |-> IdleStart]
    /\ send = [m \in SendIds |-> IdleSend]
    /\ crashed = FALSE
    /\ last = Step("Init", NoUser, NoClient, "")

\* ------------------------------------------------------------ backend events

\* a handler reads sessions[userId].<field> of an absent entry: TypeError.
\* Thrown out of a timer callback it ends the process; thrown out of a
\* listener it reaches the backend library, which may let it end the process
\* or not.
TimerThrows(act, u, c) ==
    /\ crashed' = TRUE
    /\ last' = Step(act, u, c, "TypeError")

ListenerThrows(act, u, c) ==
    /\ crashed' \in BOOLEAN
    /\ last' = Step(act, u, c, "TypeError")
    /\ UNCHANGED <<sessions, clients, authFiles, start, send>>

\* the session after the qr handler
qrSession(s, qr) == [s EXCEPT !.lastQR = qr, !.ready = FALSE]

\* client.on('qr')
OnQr(c, qr) ==
    LET userId == clients[c].owner IN
    /\ ~crashed /\ Live(clients, c)
    /\ IF ~Registered(sessions, userId) THEN ListenerThrows("qr", userId, c)
       ELSE /\ sessions' = [sessions EXCEPT ![userId] = qrSession(@, qr)]
            /\ last' = Step("qr", userId, NoClient, "")
            /\ UNCHANGED <<clients, authFiles, start, send, crashed>>

\* the idle timer of client c has neither fired nor been cleared
Armed(cl, c) == cl[c].timer \in {"fresh", "pending"}

\* clearTimeout(t) for the idle timer of client t
clearTimeout(cl, t) ==
    IF Armed(cl, t) THEN [cl EXCEPT ![t].timer = "cleared", ![t].rem = 0] ELSE cl

\* lastQR not cleared
readySessionKeepsQR(s) ==
    [s EXCEPT !.ready = TRUE, !.initializing = FALSE, !.timeout = NoClient]

\* the session after the ready handler
readySession(s) ==
    [s EXCEPT !.ready = TRUE, !.lastQR = NoQR, !.initializing = FALSE, !.timeout = NoClient]

\* client.on('ready')
OnReady(c) ==
    LET userId == clients[c].owner IN
    /\ ~crashed /\ Live(clients, c)
    /\ IF ~Registered(sessions, userId) THEN ListenerThrows("ready", userId, c)
       ELSE /\ sessions' = [sessions EXCEPT ![userId] = readySession(@)]
            /\ clients' = [(IF sessions[userId].timeout # NoClient
                             THEN clearTimeout(clients, sessions[userId].timeout)
                             ELSE clients)
                               EXCEPT ![sessions[userId].client].wasReady = TRUE]
            /\ send' = NoteReady(send, userId)
            /\ last' = Step("ready", userId, NoClient, "")
            /\ UNCHANGED <<authFiles, start, crashed>>

\* client.on('authenticated'): a log line
OnAuthenticated(c) ==
    /\ ~crashed /\ Live(clients, c)
    /\ last' = Step("authenticated", clients[c].owner, NoClient, "")
    /\ UNCHANGED <<sessions, clients, authFiles, start, send, crashed>>

\* the session started over: the payload dropped, initializing again
authFailureSessionRestarts(s) ==
    [s EXCEPT !.ready = FALSE, !.lastQR = NoQR, !.initializing = TRUE]

\* the session after the auth_failure handler
authFailureSession(s) == [s EXCEPT !.ready = FALSE]

\* client.on('auth_failure')
OnAuthFailure(c) ==
    LET userId == clients[c].owner IN
    /\ ~crashed /\ Live(clients, c)
    /\ IF ~Registered(sessions, userId) THEN ListenerThrows("auth_failure", userId, c)
       ELSE /\ sessions' = [sessions EXCEPT ![userId] = authFailureSession(@)]
            /\ last' = Step("auth_failure", userId, NoClient, "")
            /\ UNCHANGED <<clients, authFiles, start, send, crashed>>

\* the registry, the clients and the auth directories at one point of a
\* callback
World(ss, cl, af) == [sessions |-> ss, clients |-> cl, authFiles |-> af]

\* the entry deleted before the auth directory is removed
disconnectedDeletesFirst(ss, cl, af, c) ==
    LET userId == cl[c].owner
        w0 == World(ss, cl, af)
        w1 == [w0 EXCEPT !.sessions[userId].ready = FALSE,
                         !.sessions[userId].initializing = FALSE]
        w2 == [w1 EXCEPT !.clients = destroy(@, c)]
        w3 == [w2 EXCEPT !.sessions[userId] = NoSession]
        w4 == [w3 EXCEPT !.authFiles = purgeAuth(@, userId)]
        made == createClient(w4.sessions, w4.clients, userId)
        w5 == [w4 EXCEPT !.sessions = made.sessions, !.clients = made.clients]
    IN <<w0, w1, w2, w3, w4, w5>>

\* the statements of the disconnected handler of client c in their order,
\* as the sequence of the states they pass through: ready and initializing
\* set to false, client.destroy(), the auth directory removed,
\* delete sessions[userId], createClient(userId)
disconnected(ss, cl, af, c) ==
    LET userId == cl[c].owner
        w0 == World(ss, cl, af)
        w1 == [w0 EXCEPT !.sessions[userId].ready = FALSE,
                         !.sessions[userId].initializing = FALSE]
        w2 == [w1 EXCEPT !.clients = destroy(@, c)]
        w3 == [w2 EXCEPT !.authFiles = purgeAuth(@, userId)]
        w4 == [w3 EXCEPT !.sessions[userId] = NoSession]
        made == createClient(w4.sessions, w4.clients, userId)
        w5 == [w4 EXCEPT !.sessions = made.sessions, !.clients = made.clients]
    IN <<w0, w1, w2, w3, w4, w5>>

\* what the disconnected handler found: a ready entry, an auth directory
disconnectedStatus(session, hadAuth) ==
    IF session.ready THEN (IF hadAuth THEN "wasReady, purged" ELSE "wasReady")
    ELSE (IF hadAuth THEN "purged" ELSE "")

\* client.on('disconnected')
OnDisconnected(c) ==
    LET userId == clients[c].owner IN
    /\ ~crashed /\ Live(clients, c)
    /\ IF ~Registered(sessions, userId) THEN ListenerThrows("disconnected", userId, c)
       ELSE /\ CanBuild(clients)
            /\ LET steps == disconnected(sessions, clients, authFiles, c)
                   after == steps[Len(steps)]
               IN /\ sessions' = after.sessions
                  /\ clients' = after.clients
                  /\ authFiles' = after.authFiles
            /\ last' = Step("disconnected", userId, c,
                            disconnectedStatus(sessions[userId], authFiles[userId]))
            /\ UNCHANGED <<start, send, crashed>>

\* the backend (LocalAuth) stores the authentication of a live client
StoreAuth(c) ==
    /\ ~crashed /\ Live(clients, c)
    /\ ~authFiles[clients[c].owner]
    /\ authFiles' = [authFiles EXCEPT ![clients[c].owner] = TRUE]
    /\ last' = Step("storeAuth", clients[c].owner, NoClient, "")
    /\ UNCHANGED <<sessions, clients, start, send, crashed>>

\* ------------------------------------------------------------ idle timer

Due(cl, c) == cl[c].timer = "pending" /\ cl[c].rem = 0

\* a new session created in place of the removed one
idleExpiredRecreates(ss, cl, c) ==
    LET userId == cl[c].owner
        ss1 == [ss EXCEPT ![userId] = NoSession]
        cl1 == destroy(cl, c)
    IN IF CanBuild(cl1) THEN createClient(ss1, cl1, userId)
       ELSE [sessions |-> ss1, clients |-> cl1]

\* the body of the idle timer's `if`: client.destroy() on the client the
\* timer was armed with, delete sessions[userId]
idleExpired(ss, cl, c) ==
    [sessions |-> [ss EXCEPT ![cl[c].owner] = NoSession],
     clients |-> destroy(cl, c)]

\* the setTimeout callback of createClient; timers of one duration fire in
\* the order they were armed
IdleTimer(c) ==
    LET userId == clients[c].owner IN
    /\ ~crashed /\ Due(clients, c)
    /\ \A d \in Clients : d < c => ~Due(clients, d)
    /\ IF ~Registered(sessions, userId)
       THEN /\ TimerThrows("idle", userId, c)
            /\ clients' = [clients EXCEPT ![c].timer = "fired"]
            /\ UNCHANGED <<sessions, authFiles, start, send>>
       ELSE IF ~sessions[userId].ready
       THEN /\ clients' = [idleExpired(sessions, clients, c).clients EXCEPT ![c].timer = "fired"]
            /\ sessions' = idleExpired(sessions, clients, c).sessions
            /\ send' = NoteRemoved(send, userId)
            /\ last' = Step("idle", userId, c, "removed")
            /\ UNCHANGED <<authFiles, start, crashed>>
       ELSE /\ clients' = [clients EXCEPT ![c].timer = "fired"]
            /\ last' = Step("idle", userId, c, "kept")
            /\ UNCHANGED <<sessions, authFiles, start, send, crashed>>

\* ------------------------------------------------------------ start-session

\* app.post('/start-session'), up to setTimeout(..., 2000)
StartSession(s, userId) ==
    /\ ~crashed /\ start[s].pc = "idle" /\ InFlight(start, send) < MaxInFlight
    /\ IF userId = NoUser
       THEN /\ last' = Step("start-session", userId, NoClient, "400 UserId required")
            /\ UNCHANGED <<sessions, clients, authFiles, start, send, crashed>>
       ELSE /\ Registered(sessions, userId) \/ CanBuild(clients)
            /\ LET made == ensureSession(sessions, clients, userId)
               IN /\ sessions' = made.sessions
                  /\ clients' = made.clients
            /\ start' = [start EXCEPT ![s] = [IdleStart EXCEPT !.pc = "grace", !.user = userId, !.rem = Grace]]
            /\ last' = Step("start-session", userId,
                            IF Registered(sessions, userId) THEN NoClient ELSE NewId(clients), "")
            /\ UNCHANGED <<authFiles, send, crashed>>

\* the status the grace callback answers from the entry it reads
startStatus(session) ==
    IF session.ready THEN {"ready"}
    ELSE IF session.lastQR # NoQR THEN {"qr", "500 QR generation failed"}
    ELSE {"pending"}

\* the setTimeout callback of start-session
StartGrace(s) ==
    LET userId == start[s].user
        session == sessions[userId]
    IN
    /\ ~crashed /\ start[s].pc = "grace" /\ start[s].rem = 0
    /\ IF ~Registered(sessions, userId)
       THEN /\ TimerThrows("start-grace", userId, NoClient)
            /\ start' = [start EXCEPT ![s].pc = "threw"]
            /\ UNCHANGED <<sessions, clients, authFiles, send>>
       ELSE /\ start' = [start EXCEPT ![s] = IdleStart]
            /\ \E st \in startStatus(session) :
                 last' = Step("start-grace", userId, session.client, st)
            /\ UNCHANGED <<sessions, clients, authFiles, send, crashed>>

\* ------------------------------------------------------------ check-login

\* the status check-login answers
checkStatus(ss, af, userId) ==
    IF ~Registered(ss, userId)
    THEN IF sessionExists(af, userId) THEN "pending" ELSE "not_started"
    ELSE IF ss[userId].ready THEN "ready" ELSE "pending"

\* app.get('/check-login/:userId')
CheckLogin(userId) ==
    LET creates == ~Registered(sessions, userId) /\ sessionExists(authFiles, userId) IN
    /\ ~crashed
    /\ creates => CanBuild(clients)
    /\ LET made == IF creates THEN createClient(sessions, clients, userId)
                   ELSE [sessions |-> sessions, clients |-> clients]
       IN /\ sessions' = made.sessions
          /\ clients' = made.clients
    /\ last' = Step("check-login", userId,
                    IF creates THEN NewId(clients) ELSE NoClient,
                    checkStatus(sessions, authFiles, userId))
    /\ UNCHANGED <<authFiles, start, send, crashed>>

\* ------------------------------------------------------------ send-message

\* number.replace(/\D/g, '')
IsDigit(ch) == ch \in Digits
cleanNumber(number) == SelectSeq(number, IsDigit)

\* ensureClientReady, its first part: the entry is created when absent,
\* whether or not the auth directory exists
ensureClient(ss, cl, af, userId) ==
    IF ~Registered(ss, userId)
    THEN IF sessionExists(af, userId) THEN createClient(ss, cl, userId)
         ELSE createClient(ss, cl, userId)
    ELSE [sessions |-> ss, clients |-> cl]

\* one call client.sendMessage(chatId, body, {caption})
Call(client, body, caption) == [client |-> client, body |-> body, caption |-> caption]

\* the first sendMessage call of a handler: the message as text, or the
\* media with the message as its caption
firstCall(r, client) ==
    IF r.kind \in {"send-message", "send-pdf-url"} THEN Call(client, "text", NoCaption)
    ELSE IF r.kind = "send-pdf-base64" THEN Call(client, "pdf", r.message)
    ELSE Call(client, "image", r.message)

\* the handler after `await ensureClientReady()` returned client: the number
\* is checked; send-pdf-url then fetches the document, the other handlers
\* call client.sendMessage
afterReady(r, client) ==
    IF Len(cleanNumber(r.number)) < MinDigits
    THEN IdleSend
    ELSE IF r.kind = "send-pdf-url"
    THEN [r EXCEPT !.pc = "fetching", !.client = client]
    ELSE [r EXCEPT !.pc = "sending", !.client = client,
                   !.sent = Append(@, firstCall(r, client))]

\* reject(new Error('Timeout: Client not ready after waiting.')), answered 500
TimeoutError == "500 Timeout: Client not ready after waiting."
InvalidNumber == "400 Invalid phone number"

\* what the handler has answered once its request is r
answer(r) ==
    IF r.pc = "idle" THEN InvalidNumber
    ELSE IF r.pc \in {"sending", "fetching"} THEN r.pc ELSE "waiting"

\* a send-* handler up to its first suspension: the fields of the body
\* checked, ensureClientReady run up to its promise
Handle(kind, m, userId, number) ==
    /\ ~crashed /\ send[m].pc = "idle" /\ InFlight(start, send) < MaxInFlight
    /\ IF number = NumAbsent
       THEN /\ last' = Step(kind, userId, NoClient, "400 fields required")
            /\ UNCHANGED <<sessions, clients, authFiles, start, send, crashed>>
       ELSE /\ Registered(sessions, userId) \/ CanBuild(clients)
            /\ \E message \in Messages :
               LET made == ensureClient(sessions, clients, authFiles, userId)
                   session == made.sessions[userId]
                   req == [IdleSend EXCEPT !.kind = kind, !.user = userId,
                                           !.number = number, !.message = message]
               IN /\ sessions' = made.sessions
                  /\ clients' = made.clients
                  /\ send' = [send EXCEPT ![m] =
                        IF session.ready THEN afterReady(req, session.client)
                        ELSE [req EXCEPT !.pc = "waiting", !.waitRem = MaxWait,
                                         !.pollRem = PollInterval,
                                         !.startClient = session.client]]
            /\ last' = Step(kind, userId,
                            IF Registered(sessions, userId) THEN NoClient ELSE NewId(clients),
                            answer(send'[m]))
            /\ UNCHANGED <<authFiles, start, crashed>>

\* app.post('/send-message') up to the first suspension
SendMessage(m, userId, number) == Handle("send-message", m, userId, number)

\* app.post('/send-pdf-url'), app.post('/send-pdf-base64') and
\* app.post('/send-image-base64') up to the first suspension
SendPdfUrl(m, userId, number) == Handle("send-pdf-url", m, userId, number)
SendPdfBase64(m, userId, number) == Handle("send-pdf-base64", m, userId, number)
SendImageBase64(m, userId, number) == Handle("send-image-base64", m, userId, number)

\* the handle read once, when the wait began
pollTickCached(r, ss) ==
    IF Registered(ss, r.user) /\ ss[r.user].ready
    THEN afterReady(r, r.startClient)
    ELSE [r EXCEPT !.pollRem = PollInterval]

\* the wait returned whether or not the entry is ready
pollTickEager(r, ss) ==
    IF Registered(ss, r.user)
    THEN afterReady(r, ss[r.user].client)
    ELSE [r EXCEPT !.pollRem = PollInterval]

\* the wait given up when the entry is gone
pollTickGivesUp(r, ss) ==
    IF ~Registered(ss, r.user) THEN IdleSend
    ELSE IF ss[r.user].ready THEN afterReady(r, ss[r.user].client)
    ELSE [r EXCEPT !.pollRem = PollInterval]

\* what one tick of the setInterval callback makes of the request
pollTick(r, ss) ==
    IF Registered(ss, r.user) /\ ss[r.user].ready
    THEN afterReady(r, ss[r.user].client)
    ELSE [r EXCEPT !.pollRem = PollInterval]

\* the setInterval callback of ensureClientReady
PollTick(m) ==
    /\ ~crashed /\ send[m].pc = "waiting" /\ send[m].pollRem = 0
    /\ send' = [send EXCEPT ![m] = pollTick(send[m], sessions)]
    /\ last' = Step("poll", send[m].user,
                    IF sessions[send[m].user].ready THEN sessions[send[m].user].client ELSE NoClient,
                    answer(send'[m]))
    /\ UNCHANGED <<sessions, clients, authFiles, start, crashed>>

\* the session torn down when the wait times out
WaitTimeoutTearsDown(m) ==
    LET userId == send[m].user IN
    /\ ~crashed /\ send[m].pc = "waiting" /\ send[m].waitRem = 0
    /\ send' = [send EXCEPT ![m] = IdleSend]
    /\ sessions' = [sessions EXCEPT ![userId] = NoSession]
    /\ clients' = IF Registered(sessions, userId)
                  THEN clearTimeout(destroy(clients, sessions[userId].client),
                                    sessions[userId].client)
                  ELSE clients
    /\ last' = Step("wait-timeout", userId, NoClient, TimeoutError)
    /\ UNCHANGED <<authFiles, start, crashed>>

\* the setTimeout callback of ensureClientReady: clearInterval, reject
WaitTimeout(m) ==
    /\ ~crashed /\ send[m].pc = "waiting" /\ send[m].waitRem = 0
    /\ send' = [send EXCEPT ![m] = IdleSend]
    /\ last' = Step("wait-timeout", send[m].user, NoClient, TimeoutError)
    /\ UNCHANGED <<sessions, clients, authFiles, start, crashed>>

\* send-pdf-url after `await axios.get(pdfUrl)`: a failed fetch is answered
\* 500, otherwise the text is sent on the client the wait returned
afterFetch(r, ok) ==
    IF ok THEN [r EXCEPT !.pc = "sending", !.sent = Append(@, firstCall(r, r.client))]
    ELSE IdleSend

\* axios.get settles
FetchSettles(m, ok) ==
    /\ ~crashed /\ send[m].pc = "fetching"
    /\ send' = [send EXCEPT ![m] = afterFetch(send[m], ok)]
    /\ last' = Step("fetch-settles", send[m].user, send[m].client,
                    IF ok THEN "sending" ELSE "500 fetch failed")
    /\ UNCHANGED <<sessions, clients, authFiles, start, crashed>>

\* the document sent whether or not the text was
afterSendIgnoresFailure(r, ok) ==
    IF r.kind = "send-pdf-url" /\ Len(r.sent) = 1
    THEN [r EXCEPT !.delivered = @ + (IF ok THEN 1 ELSE 0),
                   !.sent = Append(@, Call(r.client, "pdf", NoCaption))]
    ELSE IdleSend

\* a handler after `await client.sendMessage(...)`: send-pdf-url sends the
\* document once the text has been sent; every other call was the last,
\* and a rejected call ends the handler in its catch
afterSend(r, ok) ==
    IF ok /\ r.kind = "send-pdf-url" /\ Len(r.sent) = 1
    THEN [r EXCEPT !.delivered = @ + 1,
                   !.sent = Append(@, Call(r.client, "pdf", NoCaption))]
    ELSE IdleSend

\* res.send({status}) of the handlers
Sent(kind) ==
    IF kind = "send-message" THEN "Message sent"
    ELSE IF kind = "send-pdf-url" THEN "Message and PDF sent from URL"
    ELSE IF kind = "send-pdf-base64" THEN "Message and PDF (base64) sent"
    ELSE "Image (base64) and message sent"

BackendError == "500 backend error"

\* client.sendMessage settles; a destroyed client cannot deliver
SendSettles(m, ok) ==
    /\ ~crashed /\ send[m].pc = "sending"
    /\ ok => Live(clients, send[m].client)
    /\ send' = [send EXCEPT ![m] = afterSend(send[m], ok)]
    /\ last' = Step("send-settles", send[m].user, send[m].client,
                    IF ~ok THEN BackendError
                    ELSE IF send'[m].pc = "sending" THEN "sending"
                    ELSE Sent(send[m].kind))
    /\ UNCHANGED <<sessions, clients, authFiles, start, crashed>>

\* ------------------------------------------------------------ time

TimerDue ==
    \/ \E c \in Clients : Due(clients, c)
    \/ \E s \in StartIds : start[s].pc = "grace" /\ start[s].rem = 0
    \/ \E m \in SendIds : send[m].pc = "waiting" /\ (send[m].waitRem = 0 \/ send[m].pollRem = 0)

TimerArmed ==
    \/ \E c \in Clients : Armed(clients, c)
    \/ \E s \in StartIds : start[s].pc = "grace"
    \/ \E m \in SendIds : send[m].pc = "waiting"

FarTimers == {c \in Clients : clients[c].timer = "pending" /\ clients[c].rem = Far}

\* One second passes: no timer is overdue by a whole second.  The idle timers
\* that come within Near seconds of their deadline are the oldest Far ones.
Tick ==
    /\ ~crashed /\ TimerArmed /\ ~TimerDue
    /\ \E near \in SUBSET FarTimers :
         /\ \A c \in near, d \in FarTimers : d < c => d \in near
         /\ clients' = [c \in Clients |->
                IF clients[c].timer # "pending" THEN clients[c]
                ELSE IF clients[c].rem = Far
                THEN IF c \in near THEN [clients[c] EXCEPT !.rem = Near] ELSE clients[c]
                ELSE [clients[c] EXCEPT !.rem = @ - 1]]
    /\ start' = [s \in StartIds |->
           IF start[s].pc = "grace" THEN [start[s] EXCEPT !.rem = @ - 1] ELSE start[s]]
    /\ send' = [m \in SendIds |->
           IF send[m].pc = "waiting"
           THEN [send[m] EXCEPT !.waitRem = @ - 1, !.pollRem = @ - 1] ELSE send[m]]
    /\ last' = Step("tick", NoUser, NoClient, "")
    /\ UNCHANGED <<sessions, authFiles, crashed>>

\* A period with no request in flight passes: the idle timers armed before
\* it are no longer fresh.
IdlePeriod ==
    /\ ~crashed /\ InFlight(start, send) = 0
    /\ \E c \in Clients : clients[c].timer = "fresh"
    /\ clients' = [c \in Clients |->
           IF clients[c].timer = "fresh" THEN [clients[c] EXCEPT !.timer = "pending"]
           ELSE clients[c]]
    /\ last' = Step("idle-period", NoUser, NoClient, "")
    /\ UNCHANGED <<sessions, authFiles, start, send, crashed>>

\* ------------------------------------------------------------ specification

Next ==
    \/ \E c \in Clients, qr \in QRs : OnQr(c, qr)
    \/ \E c \in Clients : OnReady(c)
    \/ \E c \in Clients : OnAuthenticated(c)
    \/ \E c \in Clients : OnAuthFailure(c)
    \/ \E c \in Clients : OnDisconnected(c)
    \/ \E c \in Clients : StoreAuth(c)
    \/ \E c \in Clients : IdleTimer(c)
    \/ \E s \in StartIds, u \in Users \cup {NoUser} : StartSession(s, u)
    \/ \E s \in StartIds : StartGrace(s)
    \/ \E u \in Users : CheckLogin(u)
    \/ \E m \in SendIds, u \in Users, n \in Numbers : SendMessage(m, u, n)
    \/ \E m \in SendIds : PollTick(m)
    \/ \E m \in SendIds : WaitTimeout(m)
    \/ \E m \in SendIds, ok \in BOOLEAN : SendSettles(m, ok)
    \/ Tick
    \/ IdlePeriod

Spec == Init /\ [][Next]_vars

\* the media requests in place of start-session and send-message
MediaNext ==
    \/ \E c \in Clients, qr \in QRs : OnQr(c, qr)
    \/ \E c \in Clients : OnReady(c)
    \/ \E c \in Clients : OnAuthenticated(c)
    \/ \E c \in Clients : OnAuthFailure(c)
    \/ \E c \in Clients : OnDisconnected(c)
    \/ \E c \in Clients : StoreAuth(c)
    \/ \E c \in Clients : IdleTimer(c)
    \/ \E u \in Users : CheckLogin(u)
    \/ \E m \in SendIds, u \in Users, n \in Numbers : SendPdfUrl(m, u, n)
    \/ \E m \in SendIds, u \in Users, n \in Numbers : SendPdfBase64(m, u, n)
    \/ \E m \in SendIds, u \in Users, n \in Numbers : SendImageBase64(m, u, n)
    \/ \E m \in SendIds : PollTick(m)
    \/ \E m \in SendIds : WaitTimeout(m)
    \/ \E m \in SendIds, ok \in BOOLEAN : FetchSettles(m, ok)
    \/ \E m \in SendIds, ok \in BOOLEAN : SendSettles(m, ok)
    \/ Tick
    \/ IdlePeriod

MediaSpec == Init /\ [][MediaNext]_vars

\* ------------------------------------------------------------ claims

RequestActs ==
    {"start-session", "start-grace", "check-login", "send-message", "poll",
     "wait-timeout", "send-settles"}

\* C1: the registry maps a userId to at most one session, and a callback of a
\* start-session, check-login or send-message request for a userId that has a
\* registry entry leaves the entry and every client as they were: it builds
\* no session and no client.
C1_RequestsCreateNothingTwice ==
    [][\A u \in Users :
          (last'.act \in RequestActs /\ last'.user = u /\ Registered(sessions, u))
              => /\ sessions'[u] = sessions[u]
                 /\ clients' = clients]_vars

\* a start-session request found the entry of its userId and built nothing
C1_Witness ==
    /\ last.act = "start-session" /\ last.user \in Users /\ last.client = NoClient
    /\ Registered(sessions, last.user)
    /\ Cardinality({c \in Clients : Built(clients, c)}) = 1

C8_ReadyHasNoQR ==
    \A u \in Users : (Registered(sessions, u) /\ sessions[u].ready) => sessions[u].lastQR = NoQR

\* the ready handler has just run on an entry
C8_Witness ==
    /\ last.act = "ready" /\ last.status # "TypeError"
    /\ sessions[last.user].ready /\ sessions[last.user].lastQR = NoQR

\* C10: check-login answers from the state it finds: no entry and no auth
\* directory, not_started and nothing created; no entry and an auth
\* directory, a session is created and the answer is pending; a ready entry,
\* ready; an entry that is not ready, pending.  With an entry it changes
\* neither the registry nor any client.
C10_CheckLoginTable ==
    [][\A u \in Users :
          (last'.act = "check-login" /\ last'.user = u)
              => /\ authFiles' = authFiles
                 /\ (~Registered(sessions, u) /\ ~authFiles[u])
                        => /\ last'.status = "not_started"
                           /\ sessions' = sessions /\ clients' = clients
                 /\ (~Registered(sessions, u) /\ authFiles[u])
                        => /\ last'.status = "pending"
                           /\ Registered(sessions', u)
                           /\ ~Built(clients, sessions'[u].client)
                           /\ Live(clients', sessions'[u].client)
                           /\ ~sessions'[u].ready
                 /\ (Registered(sessions, u) /\ sessions[u].ready)
                        => /\ last'.status = "ready"
                           /\ sessions' = sessions /\ clients' = clients
                 /\ (Registered(sessions, u) /\ ~sessions[u].ready)
                        => /\ last'.status = "pending"
                           /\ sessions' = sessions /\ clients' = clients]_vars

\* check-login found no entry and an auth directory, and created the session
C10_Witness ==
    /\ last.act = "check-login" /\ last.status = "pending" /\ last.client # NoClient
    /\ sessions[last.user].client = last.client
    /\ authFiles[last.user]

\* the number of a request has fewer than 10 digits
Short(number) == Len(cleanNumber(number)) < MinDigits

\* C2 as amended: a readiness wait ends in one of two ways.  When one of the
\* poll ticks, run every second before the 15 s timer fires, finds a ready
\* registry entry of the userId, the wait returns the client of that entry
\* and the handler goes on (a number of too few digits is refused, otherwise
\* the message is sent on that client).  Otherwise the request fails with
\* Timeout when the 15 s timer fires, at 15 s and not before.  No send is
\* made while the entry is not ready.
C2_WaitEndsByPollOrTimeout ==
    /\ [](\A m \in SendIds : send[m].pc = "waiting" => send[m].waitRem \in 0..MaxWait)
    /\ [][\A m \in SendIds :
             LET u == send[m].user
                 found == Registered(sessions, u) /\ sessions[u].ready
             IN
             /\ send[m].pc = "waiting" =>
                  \/ /\ send'[m].pc = "waiting" /\ send'[m].sent = << >>
                     /\ ~(last'.act = "poll" /\ found)
                  \/ /\ last'.act = "poll" /\ send[m].pollRem = 0 /\ found
                     /\ IF Short(send[m].number)
                        THEN send'[m] = IdleSend /\ last'.status = InvalidNumber
                        ELSE /\ send'[m].pc = "sending"
                             /\ send'[m].client = sessions[u].client
                             /\ send'[m].sent = <<Call(sessions[u].client, "text", NoCaption)>>
                  \/ /\ last'.act = "wait-timeout" /\ send[m].waitRem = 0
                     /\ last'.status = TimeoutError /\ send'[m] = IdleSend
             /\ (send[m].pc = "idle" /\ send'[m].pc = "waiting") =>
                  /\ ~sessions'[send'[m].user].ready
                  /\ send'[m].waitRem = MaxWait /\ send'[m].sent = << >>
             /\ (send'[m].sent # send[m].sent /\ send'[m].sent # << >>) =>
                  /\ sessions'[send'[m].user].ready
                  /\ sessions'[send'[m].user].client = send'[m].client]_vars

\* a wait that began on an entry that was not ready returned 5 s later, and
\* the message is being sent
C2_Witness ==
    \E m \in SendIds :
        /\ send[m].pc = "sending" /\ send[m].startClient # NoClient
        /\ send[m].waitRem = MaxWait - 5
        /\ last.act = "poll"

\* C2 as stated: a wait during which the entry became ready before the 15 s
\* had elapsed returns the handle, and any other wait ends in Timeout.
C2_ReadyBeforeDeadlineSucceeds ==
    [][\A m \in SendIds :
          (send[m].pc = "waiting" /\ send'[m].pc # "waiting")
              => IF send[m].becameReady THEN last'.act = "poll"
                 ELSE last'.act = "wait-timeout"]_vars

\* C3 as amended: the removal of the registry entry during a readiness wait
\* does not end the wait.  The wait stays outstanding and ends as any other:
\* with Timeout when its 15 s have elapsed, unless a poll tick first finds
\* a ready entry of the userId (one created after the removal).
C3_RemovedWaitKeepsPolling ==
    [][\A m \in SendIds :
          LET u == send[m].user IN
          send[m].pc = "waiting" =>
             /\ (Registered(sessions, u) /\ ~Registered(sessions', u))
                    => send'[m] = [send[m] EXCEPT !.vanished = TRUE]
             /\ (send[m].vanished /\ send'[m].pc # "waiting")
                    => \/ /\ last'.act = "wait-timeout" /\ send[m].waitRem = 0
                          /\ last'.status = TimeoutError
                       \/ /\ last'.act = "poll"
                          /\ Registered(sessions, u) /\ sessions[u].ready]_vars

\* the idle timer has just removed the entry a wait is polling for
C3_Witness ==
    \E m \in SendIds :
        /\ last.act = "idle" /\ last.status = "removed"
        /\ send[m].pc = "waiting" /\ send[m].vanished /\ send[m].user = last.user
        /\ ~Registered(sessions, send[m].user)

\* C3 as stated: a wait whose registry entry has been removed fails with the
\* SessionVanished error, at the latest on the poll tick that finds no entry.
C3_RemovedWaitFailsVanished ==
    [][\A m \in SendIds :
          (send[m].pc = "waiting" /\ send[m].vanished
             /\ ~Registered(sessions, send[m].user) /\ last'.act = "poll")
              => /\ send'[m].pc # "waiting"
                 /\ last'.status = "SessionVanished"]_vars

\* C4: whenever a readiness wait returns, the handle it returns is the client
\* of the entry the registry holds for the userId at that poll tick, and that
\* entry is ready; after a replacement of the session it is the client of
\* the new session, never the one the wait began with.
C4_WaitReturnsCurrentClient ==
    [][\A m \in SendIds :
          LET u == send[m].user IN
          (send[m].pc = "waiting" /\ send'[m].pc # "waiting" /\ last'.act = "poll")
              => /\ Registered(sessions, u) /\ sessions[u].ready
                 /\ last'.client = sessions[u].client
                 /\ send'[m].pc = "sending" => send'[m].client = sessions[u].client]_vars

\* a wait that began on one client returned the client of the session that
\* replaced it after a disconnect
C4_Witness ==
    \E m \in SendIds :
        /\ send[m].pc = "sending" /\ send[m].startClient # NoClient
        /\ send[m].client # send[m].startClient
        /\ clients[send[m].startClient].destroyed > 0
        /\ sessions[send[m].user].client = send[m].client

\* C5: a send-message request whose number has fewer than 10 digits is
\* answered 400 Invalid phone number whatever the state of the session of
\* its userId, and no message is sent for it.
C5_ShortNumberAlwaysRefused ==
    /\ [](\A m \in SendIds : send[m].pc = "sending" => ~Short(send[m].number))
    /\ [][\A m \in SendIds :
             (send[m].pc # "idle" /\ send'[m].pc = "idle" /\ Short(send[m].number))
                 => last'.status = InvalidNumber]_vars

\* C7: the client of a session that never became ready is destroyed at most
\* once, and once its idle timer has fired it has been destroyed exactly once
\* and its session is no longer in the registry.
C7_IdleDestroysOnce ==
    \A c \in Clients :
        (Built(clients, c) /\ ~clients[c].wasReady)
            => /\ clients[c].destroyed <= 1
               /\ clients[c].timer = "fired"
                      => /\ clients[c].destroyed = 1
                         /\ sessions[clients[c].owner].client # c

\* C9: the grace callback of every start-session request answers with the
\* status of the entry it finds: ready for a ready entry, qr (or the failure
\* of the QR rendering) for an entry that is not ready and holds a QR
\* payload, pending otherwise.
C9_StartSessionAnswers ==
    [][\A s \in StartIds :
          LET u == start[s].user IN
          (start[s].pc = "grace" /\ start'[s].pc # "grace")
              => /\ last'.act = "start-grace" /\ start'[s].pc = "idle"
                 /\ Registered(sessions, u)
                 /\ last'.status \in
                        IF sessions[u].ready THEN {"ready"}
                        ELSE IF sessions[u].lastQR # NoQR
                        THEN {"qr", "500 QR generation failed"}
                        ELSE {"pending"}]_vars

\* the kinds of the two handlers that send the media with a caption
Base64Kinds == {"send-pdf-base64", "send-image-base64"}

\* C11: a send-pdf-base64 or send-image-base64 request makes one sendMessage
\* call, the media with the caption equal to its message, and is answered
\* when that call settles.  A send-pdf-url request makes its calls in a fixed
\* order: the text, and the document only once the text call has resolved;
\* when the text call is rejected the request is answered with the error and
\* no document is sent; when the document call is rejected the text has been
\* delivered and the request is answered with the error.
C11_MediaSendsInOrder ==
    [][\A m \in SendIds :
          LET r == send[m]
              n == send'[m]
              settled == last'.act = "send-settles"
          IN
          /\ (n.kind \in Base64Kinds /\ n.sent # r.sent /\ n.pc # "idle")
                => /\ r.sent = << >> /\ n.message \in Messages
                   /\ n.sent = <<Call(n.client, IF n.kind = "send-pdf-base64" THEN "pdf" ELSE "image",
                                      n.message)>>
          /\ (r.kind \in Base64Kinds /\ r.pc = "sending" /\ n # r)
                => /\ settled /\ n = IdleSend
                   /\ last'.status \in {Sent(r.kind), BackendError}
          /\ (n.kind = "send-pdf-url" /\ n.sent # r.sent /\ n.pc # "idle")
                => \/ /\ r.sent = << >> /\ last'.act = "fetch-settles"
                      /\ n.sent = <<Call(n.client, "text", NoCaption)>>
                      /\ n.delivered = 0
                   \/ /\ r.sent = <<Call(r.client, "text", NoCaption)>>
                      /\ settled /\ last'.status = "sending"
                      /\ n.sent = Append(r.sent, Call(r.client, "pdf", NoCaption))
                      /\ n.delivered = 1
          /\ (r.kind = "send-pdf-url" /\ r.pc = "sending" /\ settled /\ last'.status = BackendError)
                => /\ n = IdleSend
                   /\ Len(r.sent) = 2 => r.delivered = 1
          /\ (r.kind = "send-pdf-url" /\ r.pc = "sending" /\ Len(r.sent) = 2 /\ n # r)
                => /\ settled /\ n = IdleSend
                   /\ last'.status \in {Sent(r.kind), BackendError}]_vars

\* a send-pdf-url request has had its text delivered and has made the
\* document call
C11_Witness ==
    \E m \in SendIds :
        /\ send[m].kind = "send-pdf-url" /\ send[m].pc = "sending"
        /\ Len(send[m].sent) = 2 /\ send[m].delivered = 1
        /\ send[m].sent[1].body = "text" /\ send[m].sent[2].body = "pdf"
        /\ last.act = "send-settles"

\* C18: every sendMessage call of a send-* handler is made on the client
\* that the registry entry of the request's userId holds at the moment of
\* the call, and that entry is ready.
C18_SendsOnCurrentReadyClient ==
    [][\A m \in SendIds :
          Len(send'[m].sent) > Len(send[m].sent)
              => LET u == send'[m].user
                     c == send'[m].sent[Len(send'[m].sent)].client
                 IN /\ Registered(sessions', u)
                    /\ sessions'[u].client = c
                    /\ sessions'[u].ready]_vars

\* C12: the callback that ends a readiness wait in Timeout changes nothing
\* but the request: the registry (the entry of the userId with its client,
\* ready, lastQR and idle timer), every client and its idle timer and the
\* auth directories are as before, no client is destroyed, and the request
\* is answered with the Timeout error without a sendMessage call.
C12_TimeoutChangesNothing ==
    [][last'.act = "wait-timeout"
          => /\ sessions' = sessions /\ clients' = clients /\ authFiles' = authFiles
             /\ crashed' = crashed /\ start' = start
             /\ last'.status = TimeoutError
             /\ \E m \in SendIds :
                  /\ send[m].pc = "waiting" /\ send[m].waitRem = 0
                  /\ send[m].user = last'.user /\ send[m].sent = << >>
                  /\ send' = [send EXCEPT ![m] = IdleSend]]_vars

\* a wait has just ended in Timeout on a registered session that is not
\* ready, whose client is live and whose idle timer is still armed
C12_Witness ==
    /\ last.act = "wait-timeout" /\ last.status = TimeoutError
    /\ Registered(sessions, last.user) /\ ~sessions[last.user].ready
    /\ Live(clients, sessions[last.user].client)
    /\ Armed(clients, sessions[last.user].client)
    /\ \A m \in SendIds : send[m].pc = "idle"

\* C13: a client belongs to the session it was built for and is destroyed
\* with it: the step that removes a registry entry destroys the client of
\* the entry it removes, and every client that has been built and not
\* destroyed is the client of the registry entry of its userId.
C13_LiveClientsAreRegistered ==
    /\ [](\A c \in Clients :
            Live(clients, c) => sessions[clients[c].owner].client = c)
    /\ [][\A u \in Users :
             (Registered(sessions, u) /\ sessions'[u].client # sessions[u].client)
                 => clients'[sessions[u].client].destroyed
                        = clients[sessions[u].client].destroyed + 1]_vars

\* C14: the disconnected handler works in this order: the client is
\* destroyed, then the auth directory of the userId is removed, then the
\* registry entry is deleted, then the replacement session is created.  At
\* every point of the handler at which the entry is absent the auth
\* directory is absent and the client has been destroyed; the directory is
\* removed only once the client has been destroyed; the replacement is
\* created only once the entry has been deleted.  (A handler that finds no
\* entry throws at its first statement and does none of the steps.)
C14_DisconnectOrder ==
    [][\A c \in Clients :
        /\ (last'.act = "disconnected" /\ last'.client = c /\ last'.status = "TypeError")
              => /\ ~Registered(sessions, clients[c].owner)
                 /\ World(sessions', clients', authFiles') = World(sessions, clients, authFiles)
        /\ (last'.act = "disconnected" /\ last'.client = c /\ last'.status # "TypeError")
              => LET u == clients[c].owner
                     w == disconnected(sessions, clients, authFiles, c)
                     Destroyed(i) == w[i].clients[c].destroyed = clients[c].destroyed + 1
                     Purged(i) == ~w[i].authFiles[u]
                     Deleted(i) == ~Registered(w[i].sessions, u)
                     Replaced(i) == /\ Registered(w[i].sessions, u)
                                    /\ ~Built(clients, w[i].sessions[u].client)
                 IN /\ w[1] = World(sessions, clients, authFiles)
                    /\ w[Len(w)] = World(sessions', clients', authFiles')
                    /\ \A i \in 1..Len(w) :
                         /\ Deleted(i) => (Purged(i) /\ Destroyed(i))
                         /\ (authFiles[u] /\ Purged(i)) => Destroyed(i)
                         /\ Replaced(i) => \E j \in 1..(i - 1) : Deleted(j)
                         /\ ~Destroyed(i) => w[i].clients[c].destroyed = clients[c].destroyed
                    /\ Replaced(Len(w)) /\ Purged(Len(w)) /\ Destroyed(Len(w))]_vars

\* a disconnected event has just been handled for a userId whose auth
\* directory existed: the directory is gone and the entry holds a new client
C14_Witness ==
    /\ last.act = "disconnected" /\ last.status \in {"purged", "wasReady, purged"}
    /\ ~authFiles[last.user]
    /\ Registered(sessions, last.user)
    /\ sessions[last.user].client # last.client
    /\ clients[last.client].destroyed >= 1

\* C15: the idle timer step that removes a session creates nothing in its
\* place: after it the registry has no entry for the userId, no client has
\* been built, the only change to the clients is that the timer's client
\* has been destroyed and its timer has fired, and the auth directories are
\* as they were.  A later start-session, check-login (with an auth
\* directory) or send-message with a number, for a userId without an entry,
\* creates the session again with a new client.
C15_IdleRemovesWithoutRecreation ==
    [][/\ \A c \in Clients :
            (last'.act = "idle" /\ last'.status = "removed" /\ last'.client = c)
                => LET u == clients[c].owner
                   IN /\ Registered(sessions, u) /\ ~Registered(sessions', u)
                      /\ \A d \in Clients : Built(clients', d) <=> Built(clients, d)
                      /\ clients' = [clients EXCEPT ![c].destroyed = @ + 1,
                                                    ![c].timer = "fired"]
                      /\ authFiles' = authFiles
       /\ \A u \in Users :
            (/\ ~Registered(sessions, u) /\ last'.user = u
             /\ \/ last'.act = "start-session"
                \/ last'.act = "send-message" /\ last'.status # "400 fields required"
                \/ last'.act = "check-login" /\ authFiles[u])
                => /\ Registered(sessions', u) /\ ~sessions'[u].ready
                   /\ ~Built(clients, sessions'[u].client)
                   /\ Live(clients', sessions'[u].client)]_vars

\* the idle timer has just removed the session of a client that was never
\* ready, and nothing stands in its place
C15_Witness ==
    /\ last.act = "idle" /\ last.status = "removed"
    /\ ~Registered(sessions, last.user)
    /\ clients[last.client].destroyed = 1 /\ clients[last.client].timer = "fired"
    /\ \A d \in Clients : d # last.client => ~Built(clients, d)

\* C16: the ready handler cancels the idle timer of the session: no idle
\* timer step removes a registry entry, or destroys a client, once the entry
\* has been ready, whatever happened to the entry afterwards (a qr or an
\* auth_failure event) and whatever sessions the userId had before.
C16_ReadyStopsIdleRemoval ==
    [][\A u \in Users :
          (last'.act = "idle" /\ last'.user = u /\ Registered(sessions, u)
             /\ clients[sessions[u].client].wasReady)
              => /\ sessions'[u] = sessions[u]
                 /\ \A c \in Clients : clients'[c].destroyed = clients[c].destroyed]_vars

\* C17: the qr and auth_failure handlers neither remove nor replace a
\* session.  The qr handler stores the payload in lastQR and leaves the
\* entry not ready; the auth_failure handler leaves the entry not ready;
\* neither changes anything else: the client, the idle timer and (for
\* auth_failure) lastQR of the entry, every client, the auth directories
\* and the requests are as before, and no client is built or destroyed.
C17_QrAndAuthFailureKeepSession ==
    [][\A u \in Users :
          (last'.act \in {"qr", "auth_failure"} /\ last'.user = u)
              => /\ clients' = clients /\ authFiles' = authFiles
                 /\ start' = start /\ send' = send
                 /\ Registered(sessions', u) <=> Registered(sessions, u)
                 /\ \A v \in Users : v # u => sessions'[v] = sessions[v]
                 /\ IF last'.status = "TypeError"
                    THEN ~Registered(sessions, u) /\ sessions' = sessions
                    ELSE /\ Registered(sessions, u) /\ crashed' = crashed
                         /\ ~sessions'[u].ready
                         /\ last'.act = "qr" =>
                              \E qr \in QRs :
                                 sessions'[u] = [sessions[u] EXCEPT !.lastQR = qr,
                                                                    !.ready = FALSE]
                         /\ last'.act = "auth_failure" =>
                              sessions'[u] = [sessions[u] EXCEPT !.ready = FALSE]]_vars

\* the auth_failure handler has just run on a session that had been ready
\* and holds a QR payload: it is registered, not ready, with its client and
\* payload
C17_Witness ==
    /\ last.act = "auth_failure" /\ last.status # "TypeError"
    /\ Registered(sessions, last.user) /\ ~sessions[last.user].ready
    /\ sessions[last.user].lastQR \in QRs
    /\ clients[sessions[last.user].client].wasReady
    /\ Live(clients, sessions[last.user].client)

\* client c was built for a userId whose registry entry now holds another
\* client
Stale(c) ==
    /\ Built(clients, c)
    /\ Registered(sessions, clients[c].owner)
    /\ sessions[clients[c].owner].client # c

\* C19: a backend event or an idle timer of a client that is no longer the
\* client of the registry entry of its userId leaves that entry as it is
\* (its ready, lastQR and timeout, and its presence) and leaves the idle
\* timer of the entry's client armed as it was.
C19_StaleCallbacksChangeNothing ==
    [][\A c \in Clients :
          (/\ Stale(c)
           /\ \/ IdleTimer(c)
              \/ \E qr \in QRs : OnQr(c, qr)
              \/ OnReady(c)
              \/ OnAuthFailure(c)
              \/ OnDisconnected(c))
              => LET u == clients[c].owner
                 IN /\ sessions'[u] = sessions[u]
                    /\ clients'[sessions[u].client] = clients[sessions[u].client]]_vars

\* C20: no idle timer callback, backend event handler or start-session
\* grace callback runs for a userId that has no registry entry: none of
\* them ends in the TypeError of reading a field of an absent entry.
C20_NoCallbackOnMissingEntry ==
    last.status # "TypeError"

====
